---- MODULE Spec2Model ----
(***************************************************************************)
(* AsyncRedis: the RESP frame decoder (src/src/frame.rs) and the buffered  *)
(* connection (src/src/lib.rs).                                            *)
(*                                                                         *)
(* Bytes are their numeric values.  A cursor is a position into a byte     *)
(* slice, 0-based as in std::io::Cursor; sequences are 1-based, so the     *)
(* byte at cursor position p is src[p + 1].                                *)
(***************************************************************************)
EXTENDS Integers, Sequences, FiniteSets, TLC

VARIABLES
    atoi_signed,  \* build: the atoi crate in use accepts a leading sign (2.x) or not (1.x)
    overflow_checks,  \* build: integer overflow panics (debug) or wraps (release)
    peer,         \* codec harness: the bytes the harness will offer to the decoder
    frames,       \* codec harness: the frames peer is the encoding of (<<>> for raw bytes)
    src,          \* the slice under the cursor: the bytes offered so far
    position,     \* Cursor position
    calls,        \* outcomes of the successive Frame::parse calls on this cursor
    oneShot,      \* src was offered whole in one piece
    wire,         \* connection: bytes in the transport, sent by the peer, not yet read
    unsent,       \* connection: bytes the peer has still to send
    sent,         \* connection: every byte the peer has sent so far
    peerClosed,   \* connection: the peer has closed its side
    broken,       \* connection: the transport has failed
    rbuf,         \* BufReader: bytes read from the transport, not yet consumed
    taken,        \* every byte the BufReader has read from the transport
    rpc,          \* receive(): "idle" or "pending" (suspended in read_until)
    buffer,       \* receive(): its local Vec
    returned,     \* results of the receive() calls that returned, each with
                  \* whether a zero-byte read ended it and what its Vec held
    wbuf,         \* BufWriter: bytes written to it, not yet handed to the transport
    wnet,         \* every byte handed to the transport by the writer
    spc,          \* send(): "idle" or "writing" (suspended in write_all)
    data,         \* send(): its argument
    rest,         \* send(): the part of data write_all has still to write
    accepted      \* the data of every send() that returned Ok, concatenated

codecVars == <<peer, frames, src, position, calls, oneShot>>
connVars == <<wire, unsent, sent, peerClosed, broken, rbuf, taken, rpc, buffer,
              returned, wbuf, wnet, spc, data, rest, accepted>>
build == <<atoi_signed, overflow_checks>>
vars == <<build, codecVars, connVars>>

----------------------------------------------------------------------------
(* Bytes                                                                   *)

SIMPLE == 43
ERRORS == 45
INTEGERS == 58
BULK == 36
ARRAY == 42
CR == 13
LF == 10
DIGIT0 == 48
PLUS == 43
INVALID_UTF8 == 255
REPLACEMENT == 65533

\* u64 and usize are 64 bits wide in the program.  The model keeps the
\* arithmetic and scales the width down to 30 bits, which the checker's
\* integers hold: U64_MAX stands for 2^64 - 1, ISIZE_MAX for 2^63 - 1.
U64_MAX == 1073741823
ISIZE_MAX == U64_MAX \div 2
\* size_of::<Frame>(), in bytes.
FRAME_SIZE == 40

Min(S) == CHOOSE x \in S : \A y \in S : x <= y

IsPrefix(s, t) == Len(s) <= Len(t) /\ SubSeq(t, 1, Len(s)) = s

SeqsUpTo(S, n) == UNION {[1..k -> S] : k \in 0..n}

----------------------------------------------------------------------------
(* Frame and Error (frame.rs 5-40)                                         *)

Simple(t) == [kind |-> "Simple", text |-> t, value |-> 0, items |-> <<>>]
ErrorFrame(t) == [kind |-> "Error", text |-> t, value |-> 0, items |-> <<>>]
Integer(v) == [kind |-> "Integer", text |-> <<>>, value |-> v, items |-> <<>>]
Bulk(d) == [kind |-> "Bulk", text |-> d, value |-> 0, items |-> <<>>]
Nil == [kind |-> "Nil", text |-> <<>>, value |-> 0, items |-> <<>>]
Array(fs) == [kind |-> "Array", text |-> <<>>, value |-> 0, items |-> fs]
NoFrame == [kind |-> "None", text |-> <<>>, value |-> 0, items |-> <<>>]

\* Result<Frame, Error> together with the cursor position the call leaves.
Ok(f, p) == [tag |-> "Ok", frame |-> f, pos |-> p]
StreamEndedEarly(p) == [tag |-> "StreamEndedEarly", frame |-> NoFrame, pos |-> p]
Protocol(p) == [tag |-> "Protocol", frame |-> NoFrame, pos |-> p]
\* The call does not return: a panic, or an abort.
Panic(p) == [tag |-> "Panic", frame |-> NoFrame, pos |-> p]

\* Result<&[u8], Error> of read_line.
LineOk(l, p) == [tag |-> "Ok", line |-> l, pos |-> p]
LineEarly(p) == [tag |-> "StreamEndedEarly", line |-> <<>>, pos |-> p]

----------------------------------------------------------------------------
(* Cursor<&[u8]> (bytes::Buf)                                              *)

remaining(s, p) == IF p < Len(s) THEN Len(s) - p ELSE 0
has_remaining(s, p) == remaining(s, p) > 0

\* String::from_utf8_lossy: ASCII is kept, an invalid byte becomes U+FFFD.
from_utf8_lossy(l) ==
    [i \in 1..Len(l) |-> IF l[i] = INVALID_UTF8 THEN REPLACEMENT ELSE l[i]]

IsDigit(b) == b >= DIGIT0 /\ b <= DIGIT0 + 9

\* Number of leading decimal digits of l from index i (1-based) on.
RECURSIVE DigitRun(_, _)
DigitRun(l, i) ==
    IF i <= Len(l) /\ IsDigit(l[i]) THEN 1 + DigitRun(l, i + 1) ELSE 0

\* The value of the n digits of l from index i on, by checked_mul and
\* checked_add from the accumulator acc; -1 when it does not fit u64.
RECURSIVE DigitsValue(_, _, _, _)
DigitsValue(l, i, n, acc) ==
    IF n = 0 THEN acc
    ELSE LET d == l[i] - DIGIT0
         IN  IF acc > (U64_MAX - d) \div 10 THEN -1
             ELSE DigitsValue(l, i + 1, n - 1, acc * 10 + d)

\* atoi::atoi::<u64>: the number the slice starts with, None when it starts with
\* none or the number overflows u64.  Trailing bytes are ignored.  With sign
\* support a leading + or - is taken, and a negative value does not fit u64.
atoi(l) ==
    LET signed == atoi_signed /\ l # <<>> /\ l[1] \in {PLUS, ERRORS}
        offset == IF signed THEN 1 ELSE 0
        n == DigitRun(l, offset + 1)
        v == DigitsValue(l, offset + 1, n, 0)
        used == offset + n
    IN  IF used = 0 \/ v < 0 THEN [some |-> FALSE, value |-> 0]
        ELSE IF signed /\ l[1] = ERRORS /\ v # 0 THEN [some |-> FALSE, value |-> 0]
        ELSE [some |-> TRUE, value |-> v]

----------------------------------------------------------------------------
(* Frame::parse and its helpers (frame.rs 49-128)                          *)

\* A variant of read_line that ends the line at a CR in the last buffered
\* position without looking at the byte after it.
read_line_lone_cr(s, p) ==
    LET hits == {i \in p..(Len(s) - 1) :
                    s[i + 1] = CR /\ (i + 1 = Len(s) \/ s[i + 2] = LF)}
    IN  IF hits = {} THEN LineEarly(p)
        ELSE LET i == Min(hits) IN LineOk(SubSeq(s, p + 1, i), i + 2)

\* A variant of read_line that looks for CR LF from the front of the buffer
\* and not from the cursor.
read_line_from_front(s, p) ==
    LET hits == {i \in 0..(Len(s) - 2) : s[i + 1] = CR /\ s[i + 2] = LF}
    IN  IF hits = {} THEN LineEarly(p)
        ELSE LET i == Min(hits) IN LineOk(SubSeq(s, p + 1, i), i + 2)

\* A variant of read_line that ends the line at the first LF past its first
\* byte, whatever the byte before that LF is.
read_line_at_lf(s, p) ==
    LET hits == {i \in p..(Len(s) - 2) : s[i + 2] = LF}
    IN  IF hits = {} THEN LineEarly(p)
        ELSE LET i == Min(hits) IN LineOk(SubSeq(s, p + 1, i), i + 2)

\* frame.rs 118-128: the line from the cursor at p up to the first CR LF.
read_line(s, p) ==
    LET start == p
        end == Len(s) - 1
        hits == {i \in start..(end - 1) : s[i + 1] = CR /\ s[i + 2] = LF}
    IN  IF hits = {} THEN LineEarly(p)
        ELSE LET i == Min(hits) IN LineOk(SubSeq(s, start + 1, i), i + 2)

parse_simple(s, p) ==
    LET line == read_line(s, p)
    IN  IF line.tag # "Ok" THEN StreamEndedEarly(line.pos)
        ELSE Ok(Simple(from_utf8_lossy(line.line)), line.pos)

parse_error(s, p) ==
    LET line == read_line(s, p)
    IN  IF line.tag # "Ok" THEN StreamEndedEarly(line.pos)
        ELSE Ok(ErrorFrame(from_utf8_lossy(line.line)), line.pos)

parse_integer(s, p) ==
    LET line == read_line(s, p)
        integer == atoi(line.line)
    IN  IF line.tag # "Ok" THEN StreamEndedEarly(line.pos)
        ELSE IF ~integer.some THEN Protocol(line.pos)
        ELSE Ok(Integer(integer.value), line.pos)

\* A variant of parse_bulk that advances past the payload only, leaving the
\* CR LF that follows it in front of the cursor.
parse_bulk_payload_only(s, p) ==
    IF ~has_remaining(s, p) THEN StreamEndedEarly(p)
    ELSE LET first == s[p + 1]
             line == read_line(s, p)
             length == atoi(line.line)
             sum == length.value + 2
             n == sum % (U64_MAX + 1)
         IN  IF line.tag # "Ok" THEN StreamEndedEarly(line.pos)
             ELSE IF first = ERRORS
                  THEN IF line.line # <<ERRORS, DIGIT0 + 1>>
                       THEN StreamEndedEarly(line.pos)
                       ELSE Ok(Nil, line.pos)
             ELSE IF ~length.some THEN Protocol(line.pos)
             ELSE IF sum > U64_MAX /\ overflow_checks THEN Panic(line.pos)
             ELSE IF remaining(s, line.pos) < n THEN StreamEndedEarly(line.pos)
             ELSE IF length.value > remaining(s, line.pos) THEN Panic(line.pos)
             ELSE Ok(Bulk(SubSeq(s, line.pos + 1, line.pos + length.value)),
                     line.pos + length.value)

\* frame.rs 96: length + 2 panics on overflow when the build checks it and
\* wraps otherwise; frame.rs 100: the slice [..length] panics when it is out of
\* range, which it can only be after a wrap.
parse_bulk(s, p) ==
    IF ~has_remaining(s, p) THEN StreamEndedEarly(p)
    ELSE LET first == s[p + 1]
             line == read_line(s, p)
             length == atoi(line.line)
             sum == length.value + 2
             n == sum % (U64_MAX + 1)
         IN  IF line.tag # "Ok" THEN StreamEndedEarly(line.pos)
             ELSE IF first = ERRORS
                  THEN IF line.line # <<ERRORS, DIGIT0 + 1>>
                       THEN StreamEndedEarly(line.pos)
                       ELSE Ok(Nil, line.pos)
             ELSE IF ~length.some THEN Protocol(line.pos)
             ELSE IF sum > U64_MAX /\ overflow_checks THEN Panic(line.pos)
             ELSE IF remaining(s, line.pos) < n THEN StreamEndedEarly(line.pos)
             ELSE IF length.value > remaining(s, line.pos) THEN Panic(line.pos)
             ELSE Ok(Bulk(SubSeq(s, line.pos + 1, line.pos + length.value)),
                     line.pos + n)

RECURSIVE parse(_, _)
RECURSIVE parse_array_loop(_, _, _, _)

\* A variant of the loop that puts each element in front of the earlier ones.
parse_array_loop_prepend(s, p, k, array) ==
    IF k = 0 THEN Ok(Array(array), p)
    ELSE LET r == parse(s, p)
         IN  IF r.tag # "Ok" THEN r
             ELSE parse_array_loop(s, r.pos, k - 1, <<r.frame>> \o array)

\* A variant of the loop in which the elements of an inner Array are counted
\* against the enclosing Array as well.
parse_array_loop_shared(s, p, k, array) ==
    IF k = 0 THEN Ok(Array(array), p)
    ELSE LET r == parse(s, p)
             used == 1 + Len(r.frame.items)
         IN  IF r.tag # "Ok" THEN r
             ELSE parse_array_loop(s, r.pos, IF k > used THEN k - used ELSE 0,
                                   Append(array, r.frame))

\* frame.rs 112-115: the for loop of parse_array, k elements still to parse.
parse_array_loop(s, p, k, array) ==
    IF k = 0 THEN Ok(Array(array), p)
    ELSE LET r == parse(s, p)
         IN  IF r.tag # "Ok" THEN r
             ELSE parse_array_loop(s, r.pos, k - 1, Append(array, r.frame))

\* frame.rs 110: Vec::with_capacity panics ("capacity overflow") when the
\* capacity exceeds isize::MAX bytes.  A smaller allocation that the allocator
\* refuses aborts too; the model's allocator refuses none.
parse_array(s, p) ==
    LET line == read_line(s, p)
        length == atoi(line.line)
    IN  IF line.tag # "Ok" THEN StreamEndedEarly(line.pos)
        ELSE IF ~length.some THEN Protocol(line.pos)
        ELSE IF length.value > ISIZE_MAX \div FRAME_SIZE THEN Panic(line.pos)
        ELSE parse_array_loop(s, line.pos, length.value, <<>>)

\* A variant that takes a frame with an unknown type byte as a Simple line.
parse_unknown_as_simple(s, p) ==
    IF ~has_remaining(s, p) THEN StreamEndedEarly(p)
    ELSE LET first == s[p + 1]
             q == p + 1
         IN  CASE first = ERRORS -> parse_error(s, q)
               [] first = INTEGERS -> parse_integer(s, q)
               [] first = BULK -> parse_bulk(s, q)
               [] first = ARRAY -> parse_array(s, q)
               [] OTHER -> parse_simple(s, q)

\* frame.rs 49-62: Frame::parse, from the cursor at p.
parse(s, p) ==
    IF ~has_remaining(s, p) THEN StreamEndedEarly(p)
    ELSE LET first == s[p + 1]
             q == p + 1
         IN  CASE first = SIMPLE -> parse_simple(s, q)
               [] first = ERRORS -> parse_error(s, q)
               [] first = INTEGERS -> parse_integer(s, q)
               [] first = BULK -> parse_bulk(s, q)
               [] first = ARRAY -> parse_array(s, q)
               [] OTHER -> Protocol(q)

----------------------------------------------------------------------------
(* The wire format (spec section 6), used to produce the decoder's inputs. *)

RECURSIVE Decimal(_)
Decimal(n) ==
    IF n < 10 THEN <<DIGIT0 + n>>
    ELSE Append(Decimal(n \div 10), DIGIT0 + (n % 10))

RECURSIVE Encode(_)
RECURSIVE EncodeAll(_)
Encode(f) ==
    CASE f.kind = "Simple" -> <<SIMPLE>> \o f.text \o <<CR, LF>>
      [] f.kind = "Error" -> <<ERRORS>> \o f.text \o <<CR, LF>>
      [] f.kind = "Integer" -> <<INTEGERS>> \o Decimal(f.value) \o <<CR, LF>>
      [] f.kind = "Bulk" ->
            <<BULK>> \o Decimal(Len(f.text)) \o <<CR, LF>> \o f.text \o <<CR, LF>>
      [] f.kind = "Nil" -> <<BULK, ERRORS, DIGIT0 + 1, CR, LF>>
      [] f.kind = "Array" ->
            <<ARRAY>> \o Decimal(Len(f.items)) \o <<CR, LF>> \o EncodeAll(f.items)

EncodeAll(fs) == IF fs = <<>> THEN <<>> ELSE Encode(Head(fs)) \o EncodeAll(Tail(fs))

----------------------------------------------------------------------------
(* Inputs of the codec harness                                             *)

MaxText == 1    \* longest Simple / Error text
MaxBulk == 2    \* longest Bulk payload
MaxArray == 2   \* most elements of an Array
MaxFrames == 2  \* most frames in one buffer
MaxRaw == 3     \* longest buffer of arbitrary bytes
MaxCalls == 2   \* most successive parse calls on one cursor

\* Text bytes: a letter, a marker byte, a lone CR, a lone LF; never the pair CR LF.
HasCRLF(t) == \E i \in 1..(Len(t) - 1) : t[i] = CR /\ t[i + 1] = LF
Texts == {t \in SeqsUpTo({120, BULK, CR, LF}, MaxText) : ~HasCRLF(t)}
Payloads == SeqsUpTo({120, CR, LF}, MaxBulk)
IntValues == {0, 7, 12, 791, U64_MAX}

Leaves ==
    {Simple(t) : t \in Texts} \cup {ErrorFrame(t) : t \in Texts}
    \cup {Integer(v) : v \in IntValues} \cup {Bulk(d) : d \in Payloads} \cup {Nil}

\* Elements of the arrays: one frame of each kind, and arrays of those.
Elems == {Simple(<<120>>), Integer(12), Bulk(<<CR, LF>>), Nil}
Inner == {Array(<<>>), Array(<<Nil>>), Array(<<Simple(<<120>>), Nil>>)}
Arrays == {Array(fs) : fs \in SeqsUpTo(Elems \cup Inner, MaxArray)}

\* *1 *1 +x and *2 *1 +x +y.
Nested1 == Array(<<Array(<<Simple(<<120>>)>>)>>)
Nested2 == Array(<<Array(<<Simple(<<120>>)>>), Simple(<<121>>)>>)

Frames == Leaves \cup Arrays \cup {Nested1, Nested2}

\* Frames that follow one another in one buffer.
Heads == {Simple(<<120>>), ErrorFrame(<<CR>>), Integer(7), Bulk(<<CR, LF>>), Nil,
          Array(<<>>), Array(<<Array(<<Nil>>), Simple(<<120>>)>>)}
FrameLists ==
    {<<f>> : f \in Frames} \cup {fs \in SeqsUpTo(Heads, MaxFrames) : Len(fs) >= 2}

\* Arbitrary bytes: three of the markers, CR, LF, a digit and a letter.  (The
\* other two markers are followed by a line, as + is; LineBuffers has them.)
Bytes == {SIMPLE, BULK, ARRAY, CR, LF, DIGIT0 + 1, 120}
RawBuffers == SeqsUpTo(Bytes, MaxRaw)

\* A marker, a hand-made line, CR LF, and what follows.  The lines: empty, -,
\* -1, -2, -0, -1x, +, +1, 0, 1, 2, 12, 1x, x, xxx, an invalid UTF-8 byte alone
\* and after a letter, a lone CR, a lone LF.
Lines ==
    {<<>>, <<ERRORS>>, <<ERRORS, DIGIT0 + 1>>, <<ERRORS, DIGIT0 + 2>>,
     <<ERRORS, DIGIT0>>, <<ERRORS, DIGIT0 + 1, 120>>, <<PLUS>>, <<PLUS, DIGIT0 + 1>>,
     <<DIGIT0>>, <<DIGIT0 + 1>>, <<DIGIT0 + 2>>, <<DIGIT0 + 1, DIGIT0 + 2>>,
     <<DIGIT0 + 1, 120>>, <<120>>, <<120, 120, 120>>, <<INVALID_UTF8>>,
     <<120, INVALID_UTF8>>, <<CR>>, <<LF>>}
\* Numbers at the edge of u64: the two largest, and one that does not fit.
HugeLines == {Decimal(U64_MAX - 1), Decimal(U64_MAX), Append(Decimal(U64_MAX), DIGIT0)}
Tails == {<<>>, <<120>>, <<120, CR, LF>>, <<120, 120, CR, LF>>, <<120, 120, 120>>,
          <<CR, LF>>, <<SIMPLE, CR, LF>>, <<SIMPLE, CR, LF, SIMPLE>>,
          <<SIMPLE, CR, LF, INTEGERS, 120, CR, LF>>}
LineBuffers ==
    {<<m>> \o l \o <<CR, LF>> \o t :
        m \in {SIMPLE, ERRORS, INTEGERS, BULK, ARRAY}, l \in Lines, t \in Tails}
    \cup {<<m>> \o l \o <<CR, LF>> \o t :
            m \in {INTEGERS, BULK, ARRAY}, l \in HugeLines, t \in {<<>>, <<120>>}}

Inputs ==
    {[peer |-> EncodeAll(fs), frames |-> fs] : fs \in FrameLists}
    \cup {[peer |-> b, frames |-> <<>>] : b \in RawBuffers \cup LineBuffers}

----------------------------------------------------------------------------
(* The connection at rest (lib.rs 16-21): nothing read, nothing written.   *)

ConnInit ==
    /\ wire = <<>> /\ unsent = <<>> /\ sent = <<>>
    /\ peerClosed = FALSE /\ broken = FALSE
    /\ rbuf = <<>> /\ taken = <<>>
    /\ rpc = "idle" /\ buffer = <<>> /\ returned = <<>>
    /\ wbuf = <<>> /\ wnet = <<>>
    /\ spc = "idle" /\ data = <<>> /\ rest = <<>> /\ accepted = <<>>

----------------------------------------------------------------------------
(* The codec harness: a caller of Frame::parse                             *)

Init ==
    /\ atoi_signed \in BOOLEAN /\ overflow_checks \in BOOLEAN
    /\ \E in \in Inputs : peer = in.peer /\ frames = in.frames
    /\ src = <<>> /\ position = 0 /\ calls = <<>> /\ oneShot = FALSE
    /\ ConnInit

\* One more byte arrives; the caller starts over with Cursor::new(&src[..]).
Feed ==
    /\ Len(src) < Len(peer)
    /\ src' = Append(src, peer[Len(src) + 1])
    /\ position' = 0 /\ calls' = <<>> /\ oneShot' = FALSE
    /\ UNCHANGED <<build, peer, frames, connVars>>

\* The whole input arrives in one piece.
Offer ==
    /\ src = <<>> /\ peer # <<>>
    /\ src' = peer
    /\ position' = 0 /\ calls' = <<>> /\ oneShot' = TRUE
    /\ UNCHANGED <<build, peer, frames, connVars>>

\* Cursor::set_position on a fresh cursor over the whole input.
Seek ==
    /\ src = peer /\ calls = <<>> /\ position = 0
    /\ \E p \in 1..Len(src) : position' = p
    /\ UNCHANGED <<build, peer, frames, src, calls, oneShot, connVars>>

\* Frame::parse(&mut cursor).
ParseCall ==
    /\ Len(calls) < MaxCalls
    /\ \A i \in 1..Len(calls) : calls[i].tag # "Panic"
    /\ LET r == parse(src, position)
       IN  /\ calls' = Append(calls, [from |-> position, tag |-> r.tag,
                                      frame |-> r.frame, to |-> r.pos])
           /\ position' = r.pos
    /\ UNCHANGED <<build, peer, frames, src, oneShot, connVars>>

Next == Feed \/ Offer \/ Seek \/ ParseCall

Spec == Init /\ [][Next]_vars

----------------------------------------------------------------------------
(* Claims about Frame::parse, checked under Spec                           *)

\* The calls on this cursor started at the front of a buffer that encodes frames.
FromFront == frames # <<>> /\ calls # <<>> /\ calls[1].from = 0

\* C1: for the encoding E of one frame, Frame::parse on every proper prefix of E
\* returns StreamEndedEarly, and on the whole of E it returns that frame and
\* advances the cursor by len(E), whether E arrived whole or byte by byte.
C1_PrefixesIncompleteWholeDecodes ==
    (FromFront /\ Len(frames) = 1) =>
        IF Len(src) < Len(peer)
        THEN calls[1].tag = "StreamEndedEarly"
        ELSE /\ calls[1].tag = "Ok"
             /\ calls[1].frame = frames[1]
             /\ calls[1].to = Len(peer)

\* C1 witness: an array holding a Bulk whose payload is CR LF, grown one byte at
\* a time, decoded at the last byte.
C1_Witness ==
    /\ FromFront /\ Len(frames) = 1 /\ ~oneShot /\ src = peer
    /\ frames[1].kind = "Array" /\ Len(frames[1].items) = 2
    /\ frames[1].items[1] = Bulk(<<CR, LF>>)
    /\ frames[1].items[2].kind = "Array"
    /\ calls[1].tag = "Ok" /\ position = Len(peer)

\* C2: whenever Frame::parse returns StreamEndedEarly, the cursor is where it
\* was before the call.
C2_IncompleteLeavesCursor ==
    \A i \in DOMAIN calls :
        calls[i].tag = "StreamEndedEarly" => calls[i].to = calls[i].from

\* C3: on a buffer holding the encodings of f1..fn, successive Frame::parse
\* calls on one cursor return f1..fn in order, each advancing the cursor by the
\* bytes of its frame, the last leaving it at the end of the buffer.
C3_SuccessiveFrames ==
    (FromFront /\ src = peer) =>
        \A i \in DOMAIN calls :
            i <= Len(frames) =>
                /\ calls[i].tag = "Ok"
                /\ calls[i].frame = frames[i]
                /\ calls[i].to - calls[i].from = Len(Encode(frames[i]))
                /\ calls[i].to = Len(EncodeAll(SubSeq(frames, 1, i)))
                /\ (i = Len(frames) => calls[i].to = Len(src))

\* C3 witness: two frames, the first a nested array, both returned, the cursor
\* at the end of the buffer.
C3_Witness ==
    /\ FromFront /\ src = peer /\ Len(frames) = 2 /\ Len(calls) = 2
    /\ frames[1].kind = "Array" /\ frames[1].items # <<>>
    /\ frames[2].kind = "Bulk"
    /\ calls[2].tag = "Ok" /\ position = Len(src)

\* C4: decoding the wire encoding of a frame f yields a frame equal to f.
C4_RoundTrip ==
    (frames # <<>> /\ src = peer /\ calls # <<>>) =>
        \A i \in 1..Len(frames) :
            calls[1].from = Len(EncodeAll(SubSeq(frames, 1, i - 1))) =>
                calls[1] = [from |-> calls[1].from, tag |-> "Ok", frame |-> frames[i],
                            to |-> calls[1].from + Len(Encode(frames[i]))]

\* C4 witness: an array of an Integer and a Bulk, offered whole and decoded.
C4_Witness ==
    /\ FromFront /\ Len(frames) = 1 /\ oneShot
    /\ frames[1] = Array(<<Integer(12), Bulk(<<CR, LF>>)>>)
    /\ calls[1].tag = "Ok" /\ calls[1].frame = frames[1]

\* The line that starts at position p is terminated by CR LF in the buffer.
Terminated(s, p) == \E j \in (p + 1)..(Len(s) - 1) : s[j] = CR /\ s[j + 1] = LF
LineAt(s, p) ==
    LET j == Min({k \in (p + 1)..(Len(s) - 1) : s[k] = CR /\ s[k + 1] = LF})
    IN  SubSeq(s, p + 1, j - 1)
IsDecimal(l) == l # <<>> /\ \A i \in 1..Len(l) : IsDigit(l[i])

\* C10: for a Bulk or Array whose length line is fully buffered, a Bulk length
\* line that is literally -1 decodes to Nil, and every other length line that is
\* not a non-negative base-10 integer gives Error::Protocol.
C10_BadLengthIsMalformed ==
    \A i \in DOMAIN calls :
        LET p == calls[i].from
        IN  (p < Len(src) /\ src[p + 1] \in {BULK, ARRAY} /\ Terminated(src, p + 1)) =>
                LET l == LineAt(src, p + 1)
                    null == src[p + 1] = BULK /\ l = <<ERRORS, DIGIT0 + 1>>
                IN  /\ null => (calls[i].tag = "Ok" /\ calls[i].frame = Nil)
                    /\ (~null /\ ~IsDecimal(l)) => calls[i].tag = "Protocol"

----------------------------------------------------------------------------
(* Connection (lib.rs 6-36) over tokio's BufReader and BufWriter on the    *)
(* halves of a TCP stream.  The two capacities stand for tokio's 8 KiB,    *)
(* scaled down.                                                            *)

ReaderCap == 3    \* capacity of the BufReader
WriterCap == 2    \* capacity of the BufWriter
MaxChunk == 2     \* most bytes the peer puts on the wire at once
MaxReceives == 3  \* most receive() calls that return
MaxData == 3      \* longest data passed to send()
MaxSent == 4      \* most bytes passed to send() over the connection's life

\* What the peer means to send: whole frames.  It may close at any point.
PeerFrames ==
    {<<>>, <<Simple(<<120>>)>>, <<Bulk(<<120>>)>>, <<Bulk(<<LF>>)>>,
     <<Array(<<Simple(<<120>>)>>)>>, <<Simple(<<120>>), Integer(7)>>}

\* The largest frame the specification lets a connection buffer (its section
\* 4.3 names the constant and not its value): here the longest frame of
\* PeerFrames.  The program has no such constant.
MaxFrameBytes == 8
\* A peer that never completes its frame: + and text with no line end.
Unterminated == <<SIMPLE>> \o [i \in 1..MaxFrameBytes |-> 120]

SendData == {d \in SeqsUpTo({120}, MaxData) : d # <<>>}

ConnectedInit ==
    /\ atoi_signed \in BOOLEAN /\ overflow_checks \in BOOLEAN
    /\ peer = <<>> /\ frames = <<>> /\ src = <<>> /\ position = 0
    /\ calls = <<>> /\ oneShot = FALSE
    /\ unsent \in {EncodeAll(fs) : fs \in PeerFrames} \cup {Unterminated}
    /\ wire = <<>> /\ sent = <<>>
    /\ peerClosed = FALSE /\ broken = FALSE
    /\ rbuf = <<>> /\ taken = <<>>
    /\ rpc = "idle" /\ buffer = <<>> /\ returned = <<>>
    /\ wbuf = <<>> /\ wnet = <<>>
    /\ spc = "idle" /\ data = <<>> /\ rest = <<>> /\ accepted = <<>>

\* The peer writes its next bytes.
PeerSend ==
    /\ ~peerClosed /\ ~broken /\ unsent # <<>>
    /\ \E n \in 1..MaxChunk :
        /\ n <= Len(unsent)
        /\ wire' = wire \o SubSeq(unsent, 1, n)
        /\ sent' = sent \o SubSeq(unsent, 1, n)
        /\ unsent' = SubSeq(unsent, n + 1, Len(unsent))
    /\ UNCHANGED <<build, codecVars, peerClosed, broken, rbuf, taken, rpc,
                   buffer, returned, wbuf, wnet, spc, data, rest, accepted>>

\* The peer closes; what it has not sent is never sent.
PeerClose ==
    /\ ~peerClosed /\ ~broken
    /\ peerClosed' = TRUE
    /\ UNCHANGED <<build, codecVars, wire, unsent, sent, broken, rbuf, taken,
                   rpc, buffer, returned, wbuf, wnet, spc, data, rest, accepted>>

\* The transport fails (a reset): unread bytes are gone, I/O returns Err.
TransportError ==
    /\ ~broken
    /\ broken' = TRUE
    /\ wire' = <<>>
    /\ UNCHANGED <<build, codecVars, unsent, sent, peerClosed, rbuf, taken,
                   rpc, buffer, returned, wbuf, wnet, spc, data, rest, accepted>>

\* A variant of until_delimiter that consumes up to, not through, the delimiter.
until_delimiter_kept(available) ==
    LET found == {i \in 1..Len(available) : available[i] = LF}
    IN  IF found # {}
        THEN [done |-> TRUE, used |-> Min(found) - 1,
              bytes |-> SubSeq(available, 1, Min(found))]
        ELSE [done |-> FALSE, used |-> Len(available), bytes |-> available]

\* read_until(b'\n', ..), the block inside its loop: the bytes of `available`
\* appended to the Vec, how many are consumed, whether the delimiter was found.
until_delimiter(available) ==
    LET found == {i \in 1..Len(available) : available[i] = LF}
    IN  IF found # {}
        THEN [done |-> TRUE, used |-> Min(found),
              bytes |-> SubSeq(available, 1, Min(found))]
        ELSE [done |-> FALSE, used |-> Len(available), bytes |-> available]

\* One poll of self.reader.read_until(b'\n', &mut buffer): poll_fill_buf and
\* consume, again and again, until the delimiter, a zero-byte read, an error,
\* or no byte being available (Pending).  rb: the BufReader's bytes, w: the
\* wire, tk: the bytes taken so far, buf: the Vec.
RECURSIVE read_until(_, _, _, _)
read_until(rb, w, tk, buf) ==
    IF rb = <<>> /\ broken
    THEN [state |-> "err", eof |-> FALSE, rbuf |-> rb, wire |-> w, taken |-> tk,
          buffer |-> buf]
    ELSE IF rb = <<>> /\ w = <<>> /\ ~peerClosed
    THEN [state |-> "pending", eof |-> FALSE, rbuf |-> rb, wire |-> w, taken |-> tk,
          buffer |-> buf]
    ELSE LET n == IF Len(w) < ReaderCap THEN Len(w) ELSE ReaderCap
             available == IF rb # <<>> THEN rb ELSE SubSeq(w, 1, n)
             w2 == IF rb # <<>> THEN w ELSE SubSeq(w, n + 1, Len(w))
             tk2 == IF rb # <<>> THEN tk ELSE tk \o available
             u == until_delimiter(available)
             rb2 == SubSeq(available, u.used + 1, Len(available))
             buf2 == buf \o u.bytes
         IN  IF u.done \/ u.used = 0
             THEN [state |-> "ready", eof |-> ~u.done, rbuf |-> rb2, wire |-> w2,
                   taken |-> tk2, buffer |-> buf2]
             ELSE read_until(rb2, w2, tk2, buf2)

\* receive() after a poll of read_until: suspended, or returned Ok(buffer), or
\* returned the transport's error.
Polled(r) ==
    /\ rbuf' = r.rbuf /\ wire' = r.wire /\ taken' = r.taken
    /\ IF r.state = "pending"
       THEN rpc' = "pending" /\ buffer' = r.buffer /\ returned' = returned
       ELSE /\ rpc' = "idle" /\ buffer' = <<>>
            /\ returned' = Append(returned,
                   IF r.state = "ready"
                   THEN [tag |-> "Ok", bytes |-> r.buffer, eof |-> r.eof,
                         pending |-> r.buffer]
                   ELSE [tag |-> "Err", bytes |-> <<>>, eof |-> FALSE,
                         pending |-> r.buffer])
    /\ UNCHANGED <<build, codecVars, unsent, sent, peerClosed, broken,
                   wbuf, wnet, spc, data, rest, accepted>>

\* connection.receive().await, up to its return or its first suspension.
Receive ==
    /\ rpc = "idle" /\ spc = "idle" /\ Len(returned) < MaxReceives
    /\ Polled(read_until(rbuf, wire, taken, <<>>))

\* The suspended receive() is woken: bytes arrived, or the peer closed, or
\* the transport failed.
ReceiveWake ==
    /\ rpc = "pending" /\ (wire # <<>> \/ peerClosed \/ broken)
    /\ Polled(read_until(rbuf, wire, taken, buffer))

\* The caller drops the suspended receive() future, and its Vec with it.
CancelReceive ==
    /\ rpc = "pending"
    /\ rpc' = "idle" /\ buffer' = <<>>
    /\ UNCHANGED <<build, codecVars, wire, unsent, sent, peerClosed, broken,
                   rbuf, taken, returned, wbuf, wnet, spc, data, rest, accepted>>

\* connection.send(d): write_all starts.
SendCall ==
    /\ spc = "idle" /\ rpc = "idle"
    /\ \E d \in SendData :
        /\ Len(accepted) + Len(d) <= MaxSent
        /\ data' = d /\ rest' = d
    /\ spc' = "writing"
    /\ UNCHANGED <<build, codecVars, wire, unsent, sent, peerClosed, broken,
                   rbuf, taken, rpc, buffer, returned, wbuf, wnet, accepted>>

\* One BufWriter::poll_write of write_all's loop: flush the buffer when the
\* bytes do not fit, then write through when they are no shorter than the
\* capacity (the transport takes k of them), else copy them into the buffer.
\* When nothing is left to write, send() returns Ok(()).
SendPoll ==
    /\ spc = "writing"
    /\ LET flush == Len(wbuf) + Len(rest) > WriterCap
           through == Len(rest) >= WriterCap
           wb == IF flush THEN <<>> ELSE wbuf
           wn == IF flush THEN wnet \o wbuf ELSE wnet
       IN  IF broken /\ ((flush /\ wbuf # <<>>) \/ through)
           THEN /\ spc' = "idle" /\ rest' = <<>>
                /\ UNCHANGED <<wbuf, wnet, accepted>>
           ELSE \E k \in 1..Len(rest) :
                   /\ through \/ k = Len(rest)
                   /\ rest' = SubSeq(rest, k + 1, Len(rest))
                   /\ LET wb2 == IF through THEN wb ELSE wb \o rest
                          wn2 == IF through THEN wn \o SubSeq(rest, 1, k) ELSE wn
                      IN  /\ wbuf' = wb2 /\ wnet' = wn2
                          /\ IF rest' = <<>>
                             THEN spc' = "idle" /\ accepted' = accepted \o data
                             ELSE UNCHANGED <<spc, accepted>>
    /\ UNCHANGED <<build, codecVars, wire, unsent, sent, peerClosed, broken,
                   rbuf, taken, rpc, buffer, returned, data>>

ConnectedNext ==
    \/ PeerSend \/ PeerClose \/ TransportError
    \/ Receive \/ ReceiveWake \/ CancelReceive
    \/ SendCall \/ SendPoll

Connected == ConnectedInit /\ [][ConnectedNext]_vars

\* The same connection with a caller that never abandons a receive().
UncancelledNext ==
    \/ PeerSend \/ PeerClose \/ TransportError
    \/ Receive \/ ReceiveWake
    \/ SendCall \/ SendPoll

Uncancelled == ConnectedInit /\ [][UncancelledNext]_vars

----------------------------------------------------------------------------
(* Claims about Connection, checked under Connected and Uncancelled        *)

\* The bytes of the successful receive() results, in order.
RECURSIVE OkBytes(_)
OkBytes(rs) ==
    IF rs = <<>> THEN <<>>
    ELSE (IF Head(rs).tag = "Ok" THEN Head(rs).bytes ELSE <<>>) \o OkBytes(Tail(rs))
Delivered == OkBytes(returned)

\* b is exactly the bytes of one frame.
WholeFrame(b) == LET r == parse(b, 0) IN r.tag = "Ok" /\ r.pos = Len(b)

\* C5: every successful receive() holds the bytes of a complete frame; a Bulk
\* or an Array is returned by one call.  (Stated for the calls that no
\* zero-byte read ended; those are C6's.)
C5_NoPartialFrame ==
    \A i \in DOMAIN returned :
        (returned[i].tag = "Ok" /\ ~returned[i].eof) =>
            WholeFrame(returned[i].bytes)

\* C6: on a zero-byte read, receive() reports a clean end when no byte is
\* pending, and an error, never the truncated bytes, when bytes are pending.
C6_ZeroByteRead ==
    \A i \in DOMAIN returned :
        returned[i].eof =>
            IF returned[i].pending = <<>>
            THEN returned[i].tag = "Ok" /\ returned[i].bytes = <<>>
            ELSE returned[i].tag = "Err"

\* C7: when a caller abandons a pending receive(), no byte taken from the
\* transport is lost or delivered twice: what the peer has sent is what has
\* been returned, then what the connection holds, then what is on the wire.
C7_CancelKeepsBytes ==
    ~broken => Delivered \o buffer \o rbuf \o wire = sent

\* C8: when send() has returned Ok, every byte passed to it has been handed to
\* the transport.
C8_SendIsFlushed ==
    (spc = "idle" /\ ~broken) => wnet = accepted

\* C9: without cancellation the results of successive receive() calls are
\* consecutive segments of the peer's byte stream: no reordering, no gap, no
\* duplication, and no byte the transport has not delivered.
C9_FifoSegments ==
    /\ IsPrefix(Delivered, taken)
    /\ IsPrefix(taken, sent)
    /\ ~broken => Delivered \o buffer \o rbuf = taken

\* C9 witness: a Bulk frame delivered by two receive() calls, the second of
\* which was suspended and woken, with everything the peer sent delivered.
C9_Witness ==
    /\ Len(returned) = 2 /\ ~broken /\ ~peerClosed
    /\ returned[1] = [tag |-> "Ok", bytes |-> <<BULK, DIGIT0 + 1, CR, LF>>,
                      eof |-> FALSE, pending |-> <<BULK, DIGIT0 + 1, CR, LF>>]
    /\ returned[2].tag = "Ok" /\ returned[2].bytes = <<120, CR, LF>>
    /\ Delivered = sent /\ unsent = <<>> /\ Len(taken) = Len(sent)

\* C17: the bytes a receive() accumulates never exceed the fixed maximum: when
\* the peer sends on without completing a frame the call fails instead of
\* growing its buffer past the maximum, and no call returns more than it.
C17_ReadIsBounded ==
    /\ Len(buffer) <= MaxFrameBytes
    /\ \A i \in DOMAIN returned :
            returned[i].tag = "Ok" => Len(returned[i].bytes) <= MaxFrameBytes

-----------------------------------------------------------------------------
(* Claims about the parsers of the single frame types, checked under Spec  *)

\* The number a line of digits writes, -1 when it does not fit u64.
Value(l) == DigitsValue(l, 1, Len(l), 0)
\* The call started at a frame of type m whose first line is fully buffered.
AtLine(c, m) ==
    /\ c.from < Len(src) /\ src[c.from + 1] = m
    /\ Terminated(src, c.from + 1)
\* The position just past the CR LF of the line that starts after the type byte.
PastLine(c) == c.from + 1 + Len(LineAt(src, c.from + 1)) + 2

\* C11: for an Integer frame whose line is fully buffered, Frame::parse returns
\* Integer(v) when the payload is a base-10 non-negative integer of value v, and
\* Error::Protocol for every other payload.
C11_IntegerOrMalformed ==
    \A i \in DOMAIN calls :
        AtLine(calls[i], INTEGERS) =>
            LET l == LineAt(src, calls[i].from + 1)
            IN  /\ (IsDecimal(l) /\ Value(l) >= 0) =>
                       (calls[i].tag = "Ok" /\ calls[i].frame = Integer(Value(l)))
                /\ ~IsDecimal(l) => calls[i].tag = "Protocol"

\* C12: for a Bulk frame that declares n bytes and has n + 2 or more bytes
\* buffered after its length line, Frame::parse returns a Bulk only if the two
\* bytes after the payload are CR LF, and Error::Protocol otherwise.
C12_BulkTerminatorChecked ==
    \A i \in DOMAIN calls :
        LET l == LineAt(src, calls[i].from + 1)
            q == PastLine(calls[i])
        IN  (/\ AtLine(calls[i], BULK)
             /\ IsDecimal(l) /\ Value(l) >= 0
             /\ Len(src) - q >= Value(l) + 2) =>
                IF src[q + Value(l) + 1] = CR /\ src[q + Value(l) + 2] = LF
                THEN calls[i].tag # "Protocol"
                ELSE calls[i].tag = "Protocol"


\* C13: for a Bulk frame that declares n >= 0 bytes, Frame::parse returns
\* StreamEndedEarly when fewer than n + 2 bytes are buffered after the length
\* line; otherwise a Bulk it returns holds exactly the first n of those bytes,
\* whatever their values, it is returned whenever CR LF follows them, and for
\* n = 0 it is the empty Bulk, not Nil.
C13_BulkByDeclaredLength ==
    \A i \in DOMAIN calls :
        LET l == LineAt(src, calls[i].from + 1)
            q == PastLine(calls[i])
            n == Value(l)
        IN  (AtLine(calls[i], BULK) /\ IsDecimal(l) /\ n >= 0) =>
                IF Len(src) - q < n + 2
                THEN calls[i].tag = "StreamEndedEarly"
                ELSE /\ calls[i].tag = "Ok" =>
                            calls[i].frame = Bulk(SubSeq(src, q + 1, q + n))
                     /\ (src[q + n + 1] = CR /\ src[q + n + 2] = LF) =>
                            calls[i].tag = "Ok"


\* The results of decoding up to k elements one after the other from position
\* p on, ending with the first that is not Ok.
RECURSIVE ElementResults(_, _, _)
ElementResults(s, p, k) ==
    IF k = 0 THEN <<>>
    ELSE LET r == parse(s, p)
         IN  IF r.tag # "Ok" THEN <<r>>
             ELSE <<r>> \o ElementResults(s, r.pos, k - 1)

\* C14: an Array that declares k elements decodes to an Array of exactly the k
\* elements that follow its length line, in wire order (the empty Array for
\* k = 0), and only when all k decode: when an element is StreamEndedEarly so
\* is the Array, when an element is Error::Protocol so is the Array, and an
\* Array of fewer than k elements is never returned.
C14_ArrayOfExactlyK ==
    \A i \in DOMAIN calls :
        LET l == LineAt(src, calls[i].from + 1)
            k == Value(l)
        IN  (AtLine(calls[i], ARRAY) /\ IsDecimal(l) /\ k >= 0) =>
                \* an element takes a byte or more: of a larger k, the elements
                \* up to the first past the end of the buffer decide
                LET have == Len(src) - PastLine(calls[i])
                    rs == ElementResults(src, PastLine(calls[i]), Min({k, have + 1}))
                    failed == rs # <<>> /\ rs[Len(rs)].tag # "Ok"
                IN  IF failed
                    THEN calls[i].tag = rs[Len(rs)].tag
                    ELSE /\ calls[i].tag = "Ok"
                         /\ calls[i].frame = Array([j \in 1..k |-> rs[j].frame])
                         /\ calls[i].to = IF k = 0 THEN PastLine(calls[i])
                                          ELSE rs[k].pos


\* *1 CR LF *1 CR LF +x CR LF and *2 CR LF *1 CR LF +x CR LF +y CR LF.
NestedBytes1 ==
    <<ARRAY, DIGIT0 + 1, CR, LF, ARRAY, DIGIT0 + 1, CR, LF, SIMPLE, 120, CR, LF>>
NestedBytes2 ==
    <<ARRAY, DIGIT0 + 2, CR, LF, ARRAY, DIGIT0 + 1, CR, LF, SIMPLE, 120, CR, LF,
      SIMPLE, 121, CR, LF>>

\* C15: an inner Array is one element of the Array around it, however many
\* elements it holds itself: a decoded Array has as many items as its own length
\* line declares, each the frame decoded at its place; *1 *1 +x decodes to
\* Array([Array([Simple x])]) and *2 *1 +x +y to Array([Array([Simple x]),
\* Simple y]).
C15_NestedBudgets ==
    \A i \in DOMAIN calls :
        /\ (/\ AtLine(calls[i], ARRAY) /\ calls[i].tag = "Ok"
            /\ IsDecimal(LineAt(src, calls[i].from + 1))) =>
                LET k == Value(LineAt(src, calls[i].from + 1))
                    rs == ElementResults(src, PastLine(calls[i]), k)
                IN  calls[i].frame = Array([j \in 1..k |-> rs[j].frame])
        /\ (calls[i].from = 0 /\ src = NestedBytes1) =>
                (calls[i].tag = "Ok" /\ calls[i].frame = Nested1 /\ calls[i].to = 12)
        /\ (calls[i].from = 0 /\ src = NestedBytes2) =>
                (calls[i].tag = "Ok" /\ calls[i].frame = Nested2 /\ calls[i].to = 16)

\* C15 witness: *2 *1 +x +y has been decoded to the Array of two items.
C15_Witness ==
    /\ src = NestedBytes2 /\ calls # <<>> /\ calls[1].from = 0
    /\ calls[1].tag = "Ok" /\ Len(calls[1].frame.items) = 2
    /\ calls[1].frame.items[1] = Array(<<Simple(<<120>>)>>)


\* C16: when the byte at the cursor is none of + - : $ *, Frame::parse returns
\* Error::Protocol whatever follows it, with or without a CR LF in the buffer,
\* and consumes no byte after that one.
C16_UnknownTypeByte ==
    \A i \in DOMAIN calls :
        (/\ calls[i].from < Len(src)
         /\ src[calls[i].from + 1] \notin {SIMPLE, ERRORS, INTEGERS, BULK, ARRAY}) =>
            /\ calls[i].tag = "Protocol"
            /\ calls[i].to <= calls[i].from + 1

\* C16 witness: a buffer of three bytes with no CR LF, the first of them not a
\* type byte, has been refused.
C16_Witness ==
    /\ Len(src) = 3 /\ ~HasCRLF(src) /\ src[1] = 120
    /\ calls # <<>> /\ calls[1].from = 0 /\ calls[1].tag = "Protocol"


\* C18: the line of a Simple, Error or Integer frame, and every length line,
\* ends at the first CR LF at or after the cursor and nowhere else.  With no
\* CR LF pair buffered (a lone CR, a lone LF or a CR in the last position do
\* not end it) the result is StreamEndedEarly; otherwise the payload is the
\* bytes between the type byte and that CR (a String holds them with invalid
\* UTF-8 replaced) and the cursor ends just past the LF.
C18_LineEndsAtFirstCRLF ==
    \A i \in DOMAIN calls :
        LET c == calls[i]
            m == src[c.from + 1]
            l == LineAt(src, c.from + 1)
            done(f) == c.tag = "Ok" /\ c.frame = f /\ c.to = PastLine(c)
        IN  (c.from < Len(src) /\ m \in {SIMPLE, ERRORS, INTEGERS, BULK, ARRAY}) =>
                IF ~Terminated(src, c.from + 1)
                THEN c.tag = "StreamEndedEarly"
                ELSE /\ m = SIMPLE => done(Simple(from_utf8_lossy(l)))
                     /\ m = ERRORS => done(ErrorFrame(from_utf8_lossy(l)))
                     /\ (m = INTEGERS /\ IsDecimal(l) /\ Value(l) >= 0) =>
                            done(Integer(Value(l)))
                     /\ (m = BULK /\ l = <<ERRORS, DIGIT0 + 1>>) => done(Nil)
                     /\ (m = ARRAY /\ l = <<DIGIT0>>) => done(Array(<<>>))

\* C18 witness: + CR CR LF has been decoded to the Simple whose text is one CR.
C18_Witness ==
    /\ src = <<SIMPLE, CR, CR, LF>> /\ calls # <<>> /\ calls[1].from = 0
    /\ calls[1].tag = "Ok" /\ calls[1].frame = Simple(<<CR>>) /\ calls[1].to = 4


\* C19: Frame::parse is total: from every buffer and cursor position it returns
\* a frame or an error and never panics or aborts, also for a Bulk length close
\* to the largest u64 and for an Array count far above the buffered data.
C19_ParseIsTotal ==
    \A i \in DOMAIN calls : calls[i].tag # "Panic"


\* C20: the outcome of Frame::parse depends only on the bytes at and after the
\* cursor: a call on buffer B from position p gives the result or error, and
\* the advance of the cursor, of a call from position 0 on the bytes of B from
\* p on.
C20_OnlyBytesFromCursor ==
    \A i \in DOMAIN calls :
        LET p == calls[i].from
            r == parse(SubSeq(src, p + 1, Len(src)), 0)
        IN  /\ calls[i].tag = r.tag
            /\ calls[i].frame = r.frame
            /\ calls[i].to - p = r.pos

\* C20 witness: a Bulk has been decoded from a cursor moved past a CR LF.
C20_Witness ==
    /\ calls # <<>> /\ calls[1].from > 0
    /\ HasCRLF(SubSeq(src, 1, calls[1].from))
    /\ calls[1].tag = "Ok" /\ calls[1].frame.kind = "Bulk"
    /\ calls[1].to = Len(src)

=============================================================================
